---- MODULE Spec2Model ----
(***************************************************************************)
(* The Keplerian orbit simulators of planetaryLogger: kepler_sim (one      *)
(* longitude per body and day) and kepler_sim_3d (x, y, z per body and     *)
(* day).  The model has three layers:                                      *)
(*   1. the C `double`, as a binary floating-point format with MantBits    *)
(*      significant bits, round-to-nearest-even, and the libm functions    *)
(*      the calculators call (sin, cos, atan2, sqrt, pow, fmod);           *)
(*   2. the C library's calendar (mktime, localtime, strftime) over a      *)
(*      time zone table;                                                   *)
(*   3. the two programs: fetch loop, date loop, calculator.               *)
(***************************************************************************)
EXTENDS Integers, Sequences, FiniteSets, TLC

(***************************************************************************)
(* Layer 1: double.  A number is <<m, e>>, standing for m * 2^e, with m = 0 *)
(* (and e = 0) or 2^(MantBits-1) <= |m| < 2^MantBits.  The C double has 53  *)
(* significant bits; the model keeps the format and narrows the mantissa.  *)
(***************************************************************************)
MantBits == 10

Pow2(k) == 2 ^ k

Abs(n) == IF n < 0 THEN -n ELSE n

Sgn(n) == IF n < 0 THEN -1 ELSE IF n = 0 THEN 0 ELSE 1

\* The number of bits of n, 0 <= n < 2^31.
BitLen4(n) ==
    IF n < 4 THEN (IF n < 2 THEN n ELSE 2) ELSE (IF n < 8 THEN 3 ELSE 4)

BitLen8(n) == IF n < 16 THEN BitLen4(n) ELSE 4 + BitLen4(n \div 16)

BitLen16(n) == IF n < 256 THEN BitLen8(n) ELSE 8 + BitLen8(n \div 256)

BitLen(n) == IF n < 65536 THEN BitLen16(n) ELSE 16 + BitLen16(n \div 65536)

\* NAN of <math.h>: the one pair no arithmetic result has.
NAN == <<0, 1>>

isnan(x) == x = NAN

Zero == <<0, 0>>

\* Rounding to nearest, ties to even: q is the part kept, r the part
\* dropped, half the half of a unit of q's last place.
RoundUp(q, r, half, sticky) == r > half \/ (r = half /\ (sticky \/ q % 2 = 1))

\* s * q2 * 2^e, where rounding up may have carried q2 to 2^MantBits.
Carry(s, q2, e) ==
    IF q2 = Pow2(MantBits) THEN <<s * Pow2(MantBits - 1), e + 1>>
    ELSE <<s * q2, e>>

\* s * a * 2^e, a > 0, with the last k bits of a rounded away.
RoundBits(s, a, k, e, sticky) ==
    Carry(s,
          (a \div Pow2(k))
              + (IF RoundUp(a \div Pow2(k), a % Pow2(k), Pow2(k - 1), sticky)
                 THEN 1 ELSE 0),
          e + k)

\* m * 2^e, where |m| has L bits.
NormL(m, e, sticky, L) ==
    IF m = 0 THEN Zero
    ELSE IF L <= MantBits THEN <<m * Pow2(MantBits - L), e - (MantBits - L)>>
    ELSE RoundBits(Sgn(m), Abs(m), L - MantBits, e, sticky)

\* Round m * 2^e (plus, with sticky, a positive amount below one unit of
\* |m|'s last place) to MantBits bits, to nearest, ties to even.
NormS(m, e, sticky) == NormL(m, e, sticky, BitLen(Abs(m)))

Norm(m, e) == NormS(m, e, FALSE)

\* (double) n, for an integer n.
FromInt(n) == Norm(n, 0)

FNeg(x) == <<-x[1], x[2]>>

FMul(x, y) == Norm(x[1] * y[1], x[2] + y[2])

\* x + y.  The operand of larger exponent is kept to two extra bits and the
\* other is shifted onto it; what the shift drops is the sticky amount.
FAddMag(hi, X, Yq, st, same) ==
    NormS(Sgn(hi[1]) * (IF same THEN X + Yq
                        ELSE IF st THEN X - Yq - 1
                        ELSE X - Yq),
          hi[2] - 2, st)

FAddShifted(hi, lo, d) ==
    FAddMag(hi, Abs(hi[1]) * 4, Abs(lo[1]) \div d, Abs(lo[1]) % d # 0,
            Sgn(hi[1]) = Sgn(lo[1]))

FAddOrdered(hi, lo, diff) ==
    IF diff <= 2 THEN Norm(hi[1] * Pow2(diff) + lo[1], lo[2])
    ELSE IF diff > 2 * MantBits THEN hi
    ELSE FAddShifted(hi, lo, Pow2(diff - 2))

FAdd(x, y) ==
    IF x[1] = 0 THEN y
    ELSE IF y[1] = 0 THEN x
    ELSE IF x[2] >= y[2] THEN FAddOrdered(x, y, x[2] - y[2])
    ELSE FAddOrdered(y, x, y[2] - x[2])

FSub(x, y) == FAdd(x, FNeg(y))

\* x / y, y # 0: the quotient of the mantissas to one guard bit, the
\* remainder as the sticky amount.
FDivRound(s, q, r, dv, e) ==
    NormS(s * (2 * q + (IF 2 * r >= dv THEN 1 ELSE 0)), e,
          2 * r # 0 /\ 2 * r # dv)

FDivMant(s, n, dv, e) == FDivRound(s, n \div dv, n % dv, dv, e)

FDiv(x, y) ==
    IF x[1] = 0 THEN Zero
    ELSE FDivMant(Sgn(x[1]) * Sgn(y[1]), Abs(x[1]) * Pow2(MantBits), Abs(y[1]),
                  x[2] - y[2] - MantBits - 1)

FLt(x, y) == FSub(x, y)[1] < 0

FLe(x, y) == FSub(x, y)[1] <= 0

(***************************************************************************)
(* <math.h>.  Each function returns the mathematical result to within a    *)
(* few units of the last place, as libm does; fmod is exact.               *)
(***************************************************************************)
One == FromInt(1)

Two == FromInt(2)

\* pi to 48 bits after the binary point, in two parts: pi is
\* PiHi * 2^-24 + PiLo * 2^-48 to within 2^-49.  M_PI is the double nearest to
\* it; libm reduces arguments against pi itself.
PiHi == 52707178

PiLo == 8947107

\* pi * 2^24, to the nearest integer.
PiScaled == IF 2 * PiLo >= Pow2(24) THEN PiHi + 1 ELSE PiHi

\* #define M_PI 3.14159265358979323846, as a double.
M_PI == Norm(PiScaled, -24)

\* The integer nearest to x (ties away from zero), |x| < 2^30.
RoundToInt(x) ==
    IF x[2] >= 0 THEN x[1] * Pow2(x[2])
    ELSE IF -x[2] > MantBits THEN 0
    ELSE Sgn(x[1]) * ((Abs(x[1]) + Pow2(-x[2]) \div 2) \div Pow2(-x[2]))

\* fmod(x, y) for a positive integer y: x - n*y with n = trunc(x / y); the
\* result has the sign of x and is exact.
fmod(x, y) ==
    IF x[1] = 0 THEN Zero
    ELSE IF x[2] >= 0 THEN Norm(Sgn(x[1]) * ((Abs(x[1]) * Pow2(x[2])) % y), 0)
    ELSE IF -x[2] > MantBits THEN x
    ELSE Norm(Sgn(x[1]) * (Abs(x[1]) % (y * Pow2(-x[2]))), x[2])

\* floor(sqrt(n)), by bisection on the bits of the root.
RECURSIVE ISqrtFrom(_, _, _)
ISqrtFrom(n, s, bit) ==
    IF bit = 0 THEN s
    ELSE ISqrtFrom(n, IF (s + bit) * (s + bit) <= n THEN s + bit ELSE s,
                   bit \div 2)

ISqrt(n) == ISqrtFrom(n, 0, Pow2(14))

\* sqrt(x), x >= 0: the root of the mantissa, widened to an even exponent
\* and MantBits+1 or more bits, then rounded once.
SqrtRound(n, s, e) ==
    NormS(2 * s + (IF n - s * s > s THEN 1 ELSE 0), e, n # s * s)

SqrtWide(n, e) == SqrtRound(n, ISqrt(n), e)

SqrtEven(m1, e1, j) == SqrtWide(m1 * Pow2(2 * j), (e1 \div 2) - j - 1)

sqrt(x) ==
    IF x[1] = 0 THEN Zero
    ELSE IF x[2] % 2 # 0
    THEN SqrtEven(2 * x[1], x[2] - 1, (30 - BitLen(2 * x[1])) \div 2)
    ELSE SqrtEven(x[1], x[2], (30 - BitLen(x[1])) \div 2)

\* pow(x, 3).
pow3(x) == FMul(FMul(x, x), x)

\* libm's argument reduction: x = k * (pi/2) + r with |r| <= pi/4, r taken
\* against pi itself (PiHi, PiLo), not against the double M_PI.
ReduceK(x) ==
    IF x[2] < -MantBits - 1 THEN 0
    ELSE RoundToInt(FDiv(FMul(x, Two), M_PI))

ReduceR(x, k) ==
    IF k = 0 THEN x
    ELSE FSub(Norm(x[1] * Pow2(x[2] + 25) - k * PiHi, -25), Norm(k * PiLo, -49))

Inv(n) == FDiv(One, FromInt(n))

\* sin and cos on [-pi/4, pi/4], by their Taylor polynomials.
\* One factor of a Horner scheme in r2: 1 - r2 * c * t.
Horner(r2, c, t) == FSub(One, FMul(FMul(r2, c), t))

SinSeries(r, r2) ==
    FMul(r, Horner(r2, Inv(6), Horner(r2, Inv(20),
                Horner(r2, Inv(42), Horner(r2, Inv(72), One)))))

SinPoly(r) == SinSeries(r, FMul(r, r))

CosSeries(r2) ==
    Horner(r2, Inv(2), Horner(r2, Inv(12),
            Horner(r2, Inv(30), Horner(r2, Inv(56), One))))

CosPoly(r) == CosSeries(FMul(r, r))

\* sin of k * (pi/2) + r, from s = sin(r) and c = cos(r).
SinQuadrant(q, s, c) ==
    IF q = 0 THEN s
    ELSE IF q = 1 THEN c
    ELSE IF q = 2 THEN FNeg(s)
    ELSE FNeg(c)

SinReduced(k, r) == SinQuadrant(k % 4, SinPoly(r), CosPoly(r))

SinK(x, k) == SinReduced(k, ReduceR(x, k))

sin(x) == SinK(x, ReduceK(x))

\* cos of k * (pi/2) + r is sin of (k + 1) * (pi/2) + r.
CosK(x, k) == SinReduced(k + 1, ReduceR(x, k))

cos(x) == CosK(x, ReduceK(x))

\* atan on [-tan(pi/8), tan(pi/8)], by its Taylor polynomial.
\* One factor of the alternating series in z2: c - z2 * t.
AtanStep(z2, c, t) == FSub(c, FMul(z2, t))

AtanSeries(z, z2) ==
    FMul(z, AtanStep(z2, One, AtanStep(z2, Inv(3), AtanStep(z2, Inv(5),
                AtanStep(z2, Inv(7), AtanStep(z2, Inv(9), Inv(11)))))))

AtanPoly(z) == AtanSeries(z, FMul(z, z))

\* pi/4 and pi/2 and pi, each rounded from pi itself.
QuarterPi == Norm(PiScaled, -26)

HalfPi == Norm(PiScaled, -25)

\* tan(pi/8) = sqrt(2) - 1.
TanPi8 == FSub(sqrt(Two), One)

\* atan(t) for 0 <= t <= 1.
Atan01(t) ==
    IF FLe(t, TanPi8) THEN AtanPoly(t)
    ELSE FAdd(QuarterPi, AtanPoly(FDiv(FSub(t, One), FAdd(t, One))))

\* atan2(y, x): the angle of (x, y) in [-pi, pi].
\* The angle of (ax, ay) in the first quadrant.
AtanFirst(ay, ax) ==
    IF FLe(ay, ax) THEN Atan01(FDiv(ay, ax))
    ELSE FSub(HalfPi, Atan01(FDiv(ax, ay)))

\* The angle a0 of (|x|, |y|), moved to the quadrant of (x, y).
AtanQuadrant(y, x, a0) ==
    IF x[1] >= 0 THEN (IF y[1] < 0 THEN FNeg(a0) ELSE a0)
    ELSE (IF y[1] < 0 THEN FNeg(FSub(M_PI, a0)) ELSE FSub(M_PI, a0))

atan2(y, x) ==
    IF y[1] = 0 /\ x[1] = 0 THEN Zero
    ELSE AtanQuadrant(y, x, AtanFirst(<<Abs(y[1]), y[2]>>, <<Abs(x[1]), x[2]>>))

(***************************************************************************)
(* Layer 2: <time.h>.  A time_t counts seconds; a broken-down time is a    *)
(* record of struct tm's fields (tm_hour, tm_min and tm_sec as one second  *)
(* of the day, tm_sod); a date string "YYYY-MM-DD" is <<YYYY, MM, DD>>.    *)
(***************************************************************************)
SECONDS_IN_DAY == 24 * 60 * 60

\* Days from 1970-01-01 to the civil date y-m-d (proleptic Gregorian); m and
\* d may lie outside their ranges by less than a year, as mktime allows.
days_from_civil(y, m, d) ==
    LET y1  == IF m <= 2 THEN y - 1 ELSE y
        era == y1 \div 400
        yoe == y1 - era * 400
        mp  == IF m > 2 THEN m - 3 ELSE m + 9
        doy == (153 * mp + 2) \div 5 + d - 1
        doe == yoe * 365 + yoe \div 4 - yoe \div 100 + doy
    IN  era * 146097 + doe - 719468

\* The civil date <<y, m, d>> of a day number.
civil_from_days(z) ==
    LET z1  == z + 719468
        era == z1 \div 146097
        doe == z1 - era * 146097
        yoe == (doe - doe \div 1460 + doe \div 36524 - doe \div 146096) \div 365
        doy == doe - (365 * yoe + yoe \div 4 - yoe \div 100)
        mp  == (5 * doy + 2) \div 153
        d   == doy - (153 * mp + 2) \div 5 + 1
        m   == IF mp < 10 THEN mp + 3 ELSE mp - 9
        y   == yoe + era * 400
    IN  <<IF m <= 2 THEN y + 1 ELSE y, m, d>>

\* The time zones of the model, as the tz database has them for 2011-2014.
\* A zone is its sequence of regimes: from instant `at` on, standard time is
\* `std` seconds east of UTC and the clocks are `save` seconds ahead of it
\* (tm_isdst is 1 when save is not 0).
ZoneUTC == << [at |-> 0, std |-> 0, save |-> 0] >>

ZoneBerlin ==
    << [at |-> 0,          std |-> 3600, save |-> 0],
       [at |-> 1301187600, std |-> 3600, save |-> 3600],
       [at |-> 1319936400, std |-> 3600, save |-> 0],
       [at |-> 1332637200, std |-> 3600, save |-> 3600],
       [at |-> 1351386000, std |-> 3600, save |-> 0],
       [at |-> 1364691600, std |-> 3600, save |-> 3600],
       [at |-> 1382835600, std |-> 3600, save |-> 0],
       [at |-> 1396141200, std |-> 3600, save |-> 3600],
       [at |-> 1414285200, std |-> 3600, save |-> 0] >>

ZoneMoscow ==
    << [at |-> 0,          std |-> 10800, save |-> 0],
       [at |-> 1301180400, std |-> 14400, save |-> 0],
       [at |-> 1414274400, std |-> 10800, save |-> 0] >>

Zones == {ZoneUTC, ZoneBerlin, ZoneMoscow}

\* The regime of zone z in force at instant t.
RegimeAt(z, t) ==
    LET i == CHOOSE i \in 1..Len(z) :
                 z[i].at <= t /\ (i = Len(z) \/ t < z[i + 1].at)
    IN  z[i]

IsDst(r) == IF r.save # 0 THEN 1 ELSE 0

\* What daylight saving adds in zone z.
ZoneSave(z) ==
    IF \E i \in 1..Len(z) : z[i].save # 0
    THEN z[CHOOSE i \in 1..Len(z) : z[i].save # 0].save
    ELSE 0

\* localtime(&t) in zone z.
localtime(z, t) ==
    LET r     == RegimeAt(z, t)
        local == t + r.std + r.save
        c     == civil_from_days(local \div SECONDS_IN_DAY)
    IN  [tm_year |-> c[1] - 1900, tm_mon |-> c[2] - 1, tm_mday |-> c[3],
         tm_sod |-> local % SECONDS_IN_DAY, tm_isdst |-> IsDst(r)]

\* mktime(&tm) in zone z: the instant whose local time is tm's fields, read
\* as standard time when tm_isdst is 0 and as daylight time when it is 1,
\* whatever is in force on that date.
mktime(z, tm) ==
    LET wall == days_from_civil(tm.tm_year + 1900, tm.tm_mon + 1, tm.tm_mday)
                    * SECONDS_IN_DAY + tm.tm_sod
        fit  == {i \in 1..Len(z) :
                    /\ IsDst(z[i]) = tm.tm_isdst
                    /\ RegimeAt(z, wall - z[i].std - z[i].save) = z[i]}
        any  == {i \in 1..Len(z) : RegimeAt(z, wall - z[i].std - z[i].save) = z[i]}
        near == IF any # {} THEN z[CHOOSE i \in any : \A j \in any : i <= j]
                ELSE RegimeAt(z, wall - z[1].std)
    IN  IF fit # {}
        THEN LET r == z[CHOOSE i \in fit : \A j \in fit : i <= j]
             IN  wall - r.std - r.save
        ELSE wall - near.std - (IF tm.tm_isdst = 1 THEN ZoneSave(z) ELSE 0)

\* strftime(..., "%Y-%m-%d", tm).
strftime(tm) == <<tm.tm_year + 1900, tm.tm_mon + 1, tm.tm_mday>>

\* struct tm t = {0}; sscanf(s, "%d-%d-%d", &t.tm_year, &t.tm_mon,
\* &t.tm_mday); t.tm_year -= 1900; t.tm_mon -= 1;
ParseDate(s) ==
    [tm_year |-> s[1] - 1900, tm_mon |-> s[2] - 1, tm_mday |-> s[3],
     tm_sod |-> 0, tm_isdst |-> 0]

\* difftime(a, b): the difference in seconds, as a double.
difftime(a, b) == FromInt(a - b)

(***************************************************************************)
(* Layer 3: the programs.  struct Planet is a record of the orbital         *)
(* elements and the epoch, and in kepler_sim_3d of x, y, z as well.         *)
(***************************************************************************)
\* A decimal numeral, in the source or in the server's text, is <<n, d>>,
\* standing for n / d with d a power of ten.  strtod (and the compiler, for a
\* literal) gives the double nearest to it.
strtod(txt) ==
    LET n  == Abs(txt[1])
        d  == txt[2]
        s  == MantBits + 2 - (BitLen(n) - BitLen(d))
    IN  IF n = 0 THEN Zero
        ELSE IF s <= 0 THEN NormS(Sgn(txt[1]) * (n \div d), 0, n % d # 0)
        ELSE NormS(Sgn(txt[1]) * ((n * Pow2(s)) \div d), -s,
                   (n * Pow2(s)) % d # 0)

\* #define AU_TO_KM 149597870.7
AU_TO_KM == strtod(<<1495978707, 10>>)

F180 == FromInt(180)

F360 == FromInt(360)

\* 365.25
DaysPerYear == strtod(<<36525, 100>>)

\* What a calculator did on its way, besides its result: whether it took the
\* early return, how many Newton-Raphson updates it made, and the values it
\* handed from step to step.
Rejected == [rejected |-> TRUE, updates |-> 0, rotated |-> FALSE,
             days_since_epoch |-> Zero, mean_anomaly |-> Zero, M_rad |-> Zero,
             E_rad |-> Zero, x_orb |-> Zero, y_orb |-> Zero]

\* kepler_sim.c: one pass of the solver's loop body.
NewtonStep2D(E, M, e) ==
    FSub(E, FDiv(FSub(FSub(E, FMul(e, sin(E))), M),
                 FSub(One, FMul(e, cos(E)))))

\* A solver that leaves its loop as soon as an update changes nothing (not
\* what the program does: C11 tells the two apart).
RECURSIVE NewtonLoopUntilConverged(_, _, _)
NewtonLoopUntilConverged(st, M, e) ==
    IF st[2] < 10 /\ (st[2] = 0 \/ NewtonStep2D(st[1], M, e) # st[1])
    THEN NewtonLoopUntilConverged(<<NewtonStep2D(st[1], M, e), st[2] + 1>>, M, e)
    ELSE st

\* kepler_sim.c: for (int i = 0; i < 10; i++) E_rad = ...; the loop's state is
\* st = <<E_rad, i>>, and the result is the state the loop leaves.
RECURSIVE NewtonLoop2D(_, _, _)
NewtonLoop2D(st, M, e) ==
    IF st[2] < 10 THEN NewtonLoop2D(<<NewtonStep2D(st[1], M, e), st[2] + 1>>, M, e)
    ELSE st

\* The rotation of the orbital-plane position (x_orb, y_orb) into the
\* ecliptic frame, from the cosines and sines of w_rad, N_rad and i_rad: the
\* expression both programs have for x and for y.
EclipticX(x_orb, y_orb, cw, sw, cN, sN, ci) ==
    FSub(FMul(x_orb, FSub(FMul(cw, cN), FMul(FMul(sw, sN), ci))),
         FMul(y_orb, FAdd(FMul(sw, cN), FMul(FMul(cw, sN), ci))))

EclipticY(x_orb, y_orb, cw, sw, cN, sN, ci) ==
    FAdd(FMul(x_orb, FAdd(FMul(cw, sN), FMul(FMul(sw, cN), ci))),
         FMul(y_orb, FAdd(FMul(FNeg(sw), sN), FMul(FMul(cw, cN), ci))))

\* kepler_sim_3d.c only: the expression for z.
EclipticZ(x_orb, y_orb, cw, sw, si) ==
    FAdd(FMul(x_orb, FMul(sw, si)), FMul(y_orb, FMul(cw, si)))

\* degrees * M_PI / 180.0
Radians(deg) == FDiv(FMul(deg, M_PI), F180)

\* kepler_sim.c: if (longitude_deg < 0) longitude_deg += 360;
WrapLongitude(longitude_deg) ==
    IF longitude_deg[1] < 0 THEN FAdd(longitude_deg, F360) ELSE longitude_deg

\* An early return that hands back zero (not what the program does: C6 tells
\* the two apart).
RejectLongitudeZero(planet) ==
    [trace |-> Rejected, ret |-> Zero, planet |-> planet]

\* kepler_sim.c, calculate_longitude: if (a <= 0) return NAN;
RejectLongitude(planet) ==
    [trace |-> Rejected, ret |-> NAN, planet |-> planet]

\* kepler_sim.c, calculate_longitude, lines 220-223: the elapsed days, the
\* propagated mean anomaly, and the same in radians.
Propagate2D(planet, current_date) ==
    LET days_since_epoch == FDiv(difftime(current_date, planet.epoch),
                                 FromInt(SECONDS_IN_DAY))
        mean_motion  == FDiv(F360, FMul(sqrt(pow3(planet.semi_major_axis_au)),
                                        DaysPerYear))
        mean_anomaly == fmod(FAdd(planet.mean_anomaly_deg,
                                  FMul(mean_motion, days_since_epoch)), 360)
    IN  <<days_since_epoch, mean_anomaly, Radians(mean_anomaly)>>

\* kepler_sim.c, calculate_longitude: <<x_orb, y_orb>> for the solver's E_rad.
OrbitalPlane2D(planet, E_rad) ==
    <<FMul(planet.semi_major_axis_au, FSub(cos(E_rad), planet.eccentricity)),
      FMul(FMul(planet.semi_major_axis_au,
                sqrt(FSub(One, FMul(planet.eccentricity, planet.eccentricity)))),
           sin(E_rad))>>

\* kepler_sim.c, calculate_longitude: the rotation and the longitude of its
\* result.
Longitude2D(planet, x_orb, y_orb) ==
    LET w_rad  == Radians(planet.arg_periapsis_deg)
        N_rad  == Radians(planet.lon_asc_node_deg)
        i_rad  == Radians(planet.inclination_deg)
        x_ecl  == EclipticX(x_orb, y_orb, cos(w_rad), sin(w_rad), cos(N_rad),
                            sin(N_rad), cos(i_rad))
        y_ecl  == EclipticY(x_orb, y_orb, cos(w_rad), sin(w_rad), cos(N_rad),
                            sin(N_rad), cos(i_rad))
        longitude_rad == atan2(y_ecl, x_ecl)
        longitude_deg == FMul(longitude_rad, FDiv(F180, M_PI))
    IN  WrapLongitude(longitude_deg)

\* The steps of calculate_longitude after the early return, each handing
\* its values to the next: prop from Propagate2D, solved = <<E_rad, i>> from
\* the solver's loop, orb from OrbitalPlane2D.
Located2D(planet, prop, solved, orb) ==
    [trace |-> [rejected |-> FALSE, days_since_epoch |-> prop[1],
                mean_anomaly |-> prop[2], M_rad |-> prop[3],
                E_rad |-> solved[1], updates |-> solved[2],
                x_orb |-> orb[1], y_orb |-> orb[2], rotated |-> TRUE],
     ret    |-> Longitude2D(planet, orb[1], orb[2]),
     planet |-> planet]

Solved2D(planet, prop, solved) ==
    Located2D(planet, prop, solved, OrbitalPlane2D(planet, solved[1]))

Propagated2D(planet, prop) ==
    Solved2D(planet, prop,
             NewtonLoop2D(<<prop[3], 0>>, prop[3], planet.eccentricity))

\* kepler_sim.c, calculate_longitude: .ret is the value returned, .planet is
\* *planet after the call, .trace what the call did.
calculate_longitude(planet, current_date) ==
    IF planet.semi_major_axis_au[1] <= 0
    THEN RejectLongitude(planet)
    ELSE Propagated2D(planet, Propagate2D(planet, current_date))

\* An update whose numerator leaves the eccentricity out, E - sin(E) - M (not
\* what the program does: C12 tells the two apart).
NewtonStepNoEccentricity(E, M, e) ==
    FSub(E, FDiv(FSub(FSub(E, sin(E)), M),
                 FSub(One, FMul(e, cos(E)))))

\* kepler_sim_3d.c: one pass of the solver's loop body.
NewtonStep3D(E, M, e) ==
    FSub(E, FDiv(FSub(FSub(E, FMul(e, sin(E))), M),
                 FSub(One, FMul(e, cos(E)))))

\* kepler_sim_3d.c: for (int i = 0; i < 10; i++) E_rad = ...; the loop's state is
\* st = <<E_rad, i>>, and the result is the state the loop leaves.
RECURSIVE NewtonLoop3D(_, _, _)
NewtonLoop3D(st, M, e) ==
    IF st[2] < 10 THEN NewtonLoop3D(<<NewtonStep3D(st[1], M, e), st[2] + 1>>, M, e)
    ELSE st

\* An early return that sets x and y and leaves z as it was (not what the
\* program does: C1 tells the two apart).
RejectPositionXY(planet) ==
    [trace  |-> Rejected,
     planet |-> [planet EXCEPT !.x = NAN, !.y = NAN]]

\* kepler_sim_3d.c, calculate_position:
\* if (a <= 0) { planet->x = planet->y = planet->z = NAN; return; }
RejectPosition(planet) ==
    [trace  |-> Rejected,
     planet |-> [planet EXCEPT !.x = NAN, !.y = NAN, !.z = NAN]]

\* A store of the position that overwrites the mean anomaly as well (not
\* what the program does: C8 tells the two apart).
StorePositionAndAnomaly(planet, x, y, z) ==
    [planet EXCEPT !.x = x, !.y = y, !.z = z, !.mean_anomaly_deg = x]

\* kepler_sim_3d.c, calculate_position: the three assignments that end it.
StorePosition(planet, x, y, z) == [planet EXCEPT !.x = x, !.y = y, !.z = z]

\* kepler_sim_3d.c, calculate_position, lines 406-409: the elapsed days, the
\* propagated mean anomaly, and the same in radians.
Propagate3D(planet, current_date) ==
    LET days_since_epoch == FDiv(difftime(current_date, planet.epoch),
                                 FromInt(SECONDS_IN_DAY))
        mean_motion  == FDiv(F360, FMul(sqrt(pow3(planet.semi_major_axis_au)),
                                        DaysPerYear))
        mean_anomaly == fmod(FAdd(planet.mean_anomaly_deg,
                                  FMul(mean_motion, days_since_epoch)), 360)
    IN  <<days_since_epoch, mean_anomaly, Radians(mean_anomaly)>>

\* Orbital-plane coordinates without the factor sqrt(1 - e*e) of y_orb (not
\* what the program does: C13 tells the two apart).
OrbitalPlaneNoFlattening(planet, E_rad) ==
    <<FMul(planet.semi_major_axis_au, FSub(cos(E_rad), planet.eccentricity)),
      FMul(planet.semi_major_axis_au, sin(E_rad))>>

\* kepler_sim_3d.c, calculate_position: <<x_orb, y_orb>> for the solver's
\* E_rad.
OrbitalPlane3D(planet, E_rad) ==
    <<FMul(planet.semi_major_axis_au, FSub(cos(E_rad), planet.eccentricity)),
      FMul(FMul(planet.semi_major_axis_au,
                sqrt(FSub(One, FMul(planet.eccentricity, planet.eccentricity)))),
           sin(E_rad))>>

\* kepler_sim_3d.c, calculate_position: the full 3D rotation, <<x, y, z>>.
Rotate3D(planet, x_orb, y_orb) ==
    LET w_rad  == Radians(planet.arg_periapsis_deg)
        N_rad  == Radians(planet.lon_asc_node_deg)
        i_rad  == Radians(planet.inclination_deg)
    IN  <<EclipticX(x_orb, y_orb, cos(w_rad), sin(w_rad), cos(N_rad),
                    sin(N_rad), cos(i_rad)),
          EclipticY(x_orb, y_orb, cos(w_rad), sin(w_rad), cos(N_rad),
                    sin(N_rad), cos(i_rad)),
          EclipticZ(x_orb, y_orb, cos(w_rad), sin(w_rad), sin(i_rad))>>

\* The steps of calculate_position after the early return, each handing its
\* values to the next: prop from Propagate3D, solved = <<E_rad, i>> from the
\* solver's loop, orb from OrbitalPlane3D, pos from Rotate3D.
Rotated3D(planet, prop, solved, orb, pos) ==
    [trace  |-> [rejected |-> FALSE, days_since_epoch |-> prop[1],
                 mean_anomaly |-> prop[2], M_rad |-> prop[3],
                 E_rad |-> solved[1], updates |-> solved[2],
                 x_orb |-> orb[1], y_orb |-> orb[2], rotated |-> TRUE],
     planet |-> StorePosition(planet, pos[1], pos[2], pos[3])]

Located3D(planet, prop, solved, orb) ==
    Rotated3D(planet, prop, solved, orb, Rotate3D(planet, orb[1], orb[2]))

Solved3D(planet, prop, solved) ==
    Located3D(planet, prop, solved, OrbitalPlane3D(planet, solved[1]))

Propagated3D(planet, prop) ==
    Solved3D(planet, prop,
             NewtonLoop3D(<<prop[3], 0>>, prop[3], planet.eccentricity))

\* kepler_sim_3d.c, calculate_position: .planet is *planet after the call,
\* .trace what the call did.
calculate_position(planet, current_date) ==
    IF planet.semi_major_axis_au[1] <= 0
    THEN RejectPosition(planet)
    ELSE Propagated3D(planet, Propagate3D(planet, current_date))

(***************************************************************************)
(* The environment: the date strings typed in, the TZ the process runs      *)
(* under, and what the Horizons server answers.                             *)
(***************************************************************************)
\* The bodies simulated; the source has all nine.
NumPlanets == 2

\* The longest range simulated, in days from the start date to the end date.
MaxSpan == 2

\* {"Mercury", "199"}, ..., {"Pluto", "999"}
PlanetNames == <<"Mercury", "Venus", "Earth", "Mars", "Jupiter", "Saturn",
                 "Uranus", "Neptune", "Pluto">>

PlanetIds == <<"199", "299", "399", "499", "599", "699", "799", "899", "999">>

Programs == {"kepler_sim", "kepler_sim_3d"}

\* The date string d days after the date string s.
DatePlus(s, d) == civil_from_days(days_from_civil(s[1], s[2], s[3]) + d)

\* Start dates typed in: the days before Europe's clocks changed in 2011 and
\* in 2014.
StartDates == {<<2011, 3, 26>>, <<2014, 10, 25>>}

\* The end date is typed in independently of the start date and may precede it.
EndDates(start) == {DatePlus(start, d) : d \in -1..MaxSpan}

\* kepler_sim asks for the epoch date as well; it may follow the start date.
EpochDates(start) == {DatePlus(start, d) : d \in 0..1}

\* A field the server's text does not have.
Absent == <<>>

\* The element lines of a server text after $$SOE, as decimal numerals (IN_
\* is the text's "IN=").
\* An orbit like the Earth's, periapsis and node both at 180 degrees.
TextEarth ==
    [soe |-> TRUE, EC |-> <<167, 10000>>, IN_ |-> <<0, 1>>, OM |-> <<180, 1>>,
     W |-> <<180, 1>>, MA |-> <<0, 1>>, A |-> <<1495978707, 10>>]

\* An inclined, eccentric orbit of 1.5 AU.
TextInclined ==
    [soe |-> TRUE, EC |-> <<2, 10>>, IN_ |-> <<30, 1>>, OM |-> <<45, 1>>,
     W |-> <<60, 1>>, MA |-> <<3595, 10>>, A |-> <<224396806, 1>>]

\* A circular orbit: eccentricity 0.
TextCircular ==
    [soe |-> TRUE, EC |-> <<0, 1>>, IN_ |-> <<34, 10>>, OM |-> <<767, 10>>,
     W |-> <<55, 1>>, MA |-> <<50, 1>>, A |-> <<108208930, 1>>]

\* Texts whose semi-major axis is zero, or negative as for a hyperbolic orbit.
TextZeroA == [TextEarth EXCEPT !.A = <<0, 1>>]

TextNegativeA == [TextInclined EXCEPT !.EC = <<12, 10>>, !.A = <<-224396806, 1>>]

\* Texts that cannot be parsed: no $$SOE marker, or a field missing.
TextNoMarker == [TextEarth EXCEPT !.soe = FALSE]

TextNoMA == [TextEarth EXCEPT !.MA = Absent]

\* What one request can meet: no curl handle, a failed transfer, or a text.
Responses ==
    {[init_ok |-> FALSE, perform_ok |-> FALSE, text |-> TextNoMarker],
     [init_ok |-> TRUE, perform_ok |-> FALSE, text |-> TextNoMarker]}
    \cup {[init_ok |-> TRUE, perform_ok |-> TRUE, text |-> t] :
             t \in {TextEarth, TextInclined, TextCircular, TextZeroA,
                    TextNegativeA, TextNoMarker, TextNoMA}}

(***************************************************************************)
(* fprintf's conversions.  A cell is [nan, val]: "nan", or the decimal      *)
(* numeral val / 10^digits that %.<digits>f prints.                         *)
(***************************************************************************)
\* v / 2^k to the nearest integer, ties to even; v >= 0.
RoundShift(v, k) ==
    IF k <= 30
    THEN LET d == Pow2(k)
             q == v \div d
             r == v % d
         IN  IF r > d \div 2 \/ (k > 0 /\ r = d \div 2 /\ q % 2 = 1)
             THEN q + 1 ELSE q
    ELSE IF k > 60 THEN 0
    ELSE LET v1 == v \div Pow2(k - 30)
             st == v % Pow2(k - 30) # 0
             h  == Pow2(29)
         IN  IF v1 > h \/ (v1 = h /\ st) THEN 1 ELSE 0

Pow10(k) == 10 ^ k

\* "%.4f" (digits = 4) and "%.6f" (digits = 6).
FormatF(x, digits) ==
    IF isnan(x) THEN [nan |-> TRUE, val |-> 0]
    ELSE LET v == Abs(x[1]) * Pow10(digits)
         IN  [nan |-> FALSE,
              val |-> Sgn(x[1]) * (IF x[2] >= 0 THEN v * Pow2(x[2])
                                   ELSE RoundShift(v, -x[2]))]

(***************************************************************************)
(* The state of one run of kepler_sim or kepler_sim_3d.                     *)
(***************************************************************************)
VARIABLES
    prog,              \* which program runs
    tz,                \* the time zone of the process
    epoch_date_input,  \* kepler_sim: the epoch date typed in
    start_date_input,  \* the start date typed in
    end_date_input,    \* the end date typed in
    pc,                \* where main is: "fetch", "open", "loop", "body", "exit"
    exit_code,         \* main's return value, once pc is "exit"
    planets,           \* struct Planet planets[]
    i,                 \* the index of the for loop main is in
    requests,          \* the requests sent to the server, in order
    fetched,           \* what the calls of fetch_orbital_elements returned
    current_t,         \* time_t current_t
    end_t,             \* time_t end_t
    date_str,          \* char date_str[11]
    outfile,           \* the lines written to the output file and ended
    line,              \* the fields of the line being written
    calls,             \* the calculator invocations made, in order
    last,              \* what the latest calculator invocation did
    num_days_to_log,   \* planetary_logger: the number of days typed in
    day                \* planetary_logger: the index of the day loop

vars == <<prog, tz, epoch_date_input, start_date_input, end_date_input, pc,
          exit_code, planets, i, requests, fetched, current_t, end_t,
          date_str, outfile, line, calls, last, num_days_to_log, day>>

\* struct Planet planets[] = {{"Mercury", "199"}, ...}: the members left
\* out of the initialiser are zero.  Only kepler_sim_3d's struct has x, y, z.
InitialPlanet(p, k) ==
    IF p = "kepler_sim"
    THEN [name |-> PlanetNames[k], id |-> PlanetIds[k],
          eccentricity |-> Zero, semi_major_axis_au |-> Zero,
          inclination_deg |-> Zero, lon_asc_node_deg |-> Zero,
          arg_periapsis_deg |-> Zero, mean_anomaly_deg |-> Zero, epoch |-> 0]
    ELSE [name |-> PlanetNames[k], id |-> PlanetIds[k],
          eccentricity |-> Zero, semi_major_axis_au |-> Zero,
          inclination_deg |-> Zero, lon_asc_node_deg |-> Zero,
          arg_periapsis_deg |-> Zero, mean_anomaly_deg |-> Zero, epoch |-> 0,
          x |-> Zero, y |-> Zero, z |-> Zero]

\* No calculator invocation yet.
NoCall == [called |-> FALSE]

\* The state after the prompts: every string typed in is a date (the scanf
\* failures of kepler_sim_3d return 1 before anything else happens and are
\* left out), and nothing has been fetched, opened or calculated.

Init ==
    /\ prog \in Programs
    /\ tz \in Zones
    /\ start_date_input \in StartDates
    /\ end_date_input \in EndDates(start_date_input)
    /\ epoch_date_input \in
           IF prog = "kepler_sim" THEN EpochDates(start_date_input) ELSE {Absent}
    /\ pc = "fetch"
    /\ exit_code = 0
    /\ planets = [k \in 1..NumPlanets |-> InitialPlanet(prog, k)]
    /\ i = 1
    /\ requests = <<>>
    /\ fetched = <<>>
    /\ current_t = 0
    /\ end_t = 0
    /\ date_str = Absent
    /\ outfile = <<>>
    /\ line = <<>>
    /\ calls = <<>>
    /\ last = NoCall
    /\ num_days_to_log = 0
    /\ day = 0

\* sscanf(ptr, "EC= %lf", &member): the member keeps its value when the text
\* has no such field.
ScanField(field, member) == IF field = Absent THEN member ELSE strtod(field)

Parsed(field) == IF field = Absent THEN 0 ELSE 1

\* fetch_orbital_elements(planet, epoch_str) meeting the response resp: .ret
\* is the value returned, .planet is *planet after the call, .sent the
\* requests made.
fetch_orbital_elements(planet, epoch_str, resp) ==
    IF ~resp.init_ok THEN [ret |-> -1, planet |-> planet, sent |-> <<>>]
    ELSE
    LET epoch_t      == mktime(tz, ParseDate(epoch_str))
        \* mktime has normalised epoch_tm to the local time of epoch_t
        epoch_tm     == localtime(tz, epoch_t)
        next_day_str == strftime(localtime(tz, epoch_t + SECONDS_IN_DAY))
        url          == <<planet.id, epoch_str, next_day_str>>
        text         == resp.text
        parsed_count == Parsed(text.EC) + Parsed(text.IN_) + Parsed(text.OM)
                            + Parsed(text.W) + Parsed(text.MA) + Parsed(text.A)
        semi_major_axis_km == ScanField(text.A, Zero)
        scanned ==
            [planet EXCEPT
                !.eccentricity       = ScanField(text.EC, @),
                !.inclination_deg    = ScanField(text.IN_, @),
                !.lon_asc_node_deg   = ScanField(text.OM, @),
                !.arg_periapsis_deg  = ScanField(text.W, @),
                !.mean_anomaly_deg   = ScanField(text.MA, @),
                !.semi_major_axis_au = FDiv(semi_major_axis_km, AU_TO_KM)]
    IN  IF ~resp.perform_ok \/ ~text.soe
        THEN [ret |-> -1, planet |-> planet, sent |-> <<url>>]
        ELSE IF parsed_count = 6
        THEN [ret |-> 0, sent |-> <<url>>,
              planet |-> [scanned EXCEPT !.epoch = mktime(tz, epoch_tm)]]
        ELSE [ret |-> -1, planet |-> scanned, sent |-> <<url>>]

\* A 3D simulator whose epoch is the day after the start date (not what the
\* program does: C15 tells the two apart).
EpochStrNextDay ==
    IF prog = "kepler_sim" THEN epoch_date_input
    ELSE DatePlus(start_date_input, 1)

\* main: the epoch string handed to fetch_orbital_elements.
EpochStr == IF prog = "kepler_sim" THEN epoch_date_input ELSE start_date_input

\* A check of the fetch result that lets every result pass (not what the
\* program does: C7 tells the two apart).
FetchNeverFailed(ret) == FALSE

\* main: if (fetch_orbital_elements(...) != 0)
FetchFailed(ret) == ret # 0

\* main, the fetch loop: one pass, meeting some response.  A failure ends
\* the run with return 1.
Fetch ==
    /\ pc = "fetch"
    /\ \E resp \in Responses :
          LET r == fetch_orbital_elements(planets[i], EpochStr, resp)
          IN  /\ planets' = [planets EXCEPT ![i] = r.planet]
              /\ requests' = requests \o r.sent
              /\ fetched' = Append(fetched, r.ret)
              /\ IF FetchFailed(r.ret)
                 THEN pc' = "exit" /\ exit_code' = 1 /\ i' = i
                 ELSE /\ exit_code' = exit_code
                      /\ IF i + 1 <= NumPlanets
                         THEN pc' = "fetch" /\ i' = i + 1
                         ELSE pc' = "open" /\ i' = 1
    /\ UNCHANGED <<num_days_to_log, day>>
    /\ UNCHANGED <<prog, tz, epoch_date_input, start_date_input,
                   end_date_input, current_t, end_t, date_str, outfile, line,
                   calls, last>>

\* main: the header line of the output file.
Header ==
    IF prog = "kepler_sim"
    THEN <<"Date">> \o [k \in 1..NumPlanets |-> planets[k].name]
    ELSE <<"Date">> \o [k \in 1..NumPlanets |->
                           <<planets[k].name \o "_x", planets[k].name \o "_y",
                             planets[k].name \o "_z">>]

\* main: fopen, and on success the header line and the loop's set-up; on
\* failure return 1.
OpenFile ==
    /\ pc = "open"
    /\ \E opened \in BOOLEAN :
          IF opened
          THEN /\ outfile' = <<Header>>
               /\ current_t' = mktime(tz, ParseDate(start_date_input))
               /\ end_t' = mktime(tz, ParseDate(end_date_input))
               /\ pc' = "loop"
               /\ exit_code' = exit_code
          ELSE /\ pc' = "exit"
               /\ exit_code' = 1
               /\ UNCHANGED <<outfile, current_t, end_t>>
    /\ UNCHANGED <<num_days_to_log, day>>
    /\ UNCHANGED <<prog, tz, epoch_date_input, start_date_input,
                   end_date_input, planets, i, requests, fetched, date_str,
                   line, calls, last>>

\* main: while (current_t <= end_t), entering the body: the date string is
\* made and written.
BeginRow ==
    /\ pc = "loop"
    /\ current_t <= end_t
    /\ date_str' = strftime(localtime(tz, current_t))
    /\ line' = <<date_str'>>
    /\ i' = 1
    /\ pc' = "body"
    /\ UNCHANGED <<num_days_to_log, day>>
    /\ UNCHANGED <<prog, tz, epoch_date_input, start_date_input,
                   end_date_input, exit_code, planets, requests, fetched,
                   current_t, end_t, outfile, calls, last>>

\* What the inner loop's pass for body i records of its calculator
\* invocation r, and the cell it prints: "%.4f" of the longitude returned, or
\* "%.6f" of each of the x, y, z the call left in the struct.
Invoked2D(planet, r) ==
    [called |-> TRUE, body |-> i, date |-> date_str, t |-> current_t,
     before |-> planet, trace |-> r.trace, after |-> r.planet,
     longitude |-> r.ret, cell |-> FormatF(r.ret, 4)]

Invoked3D(planet, r) ==
    [called |-> TRUE, body |-> i, date |-> date_str, t |-> current_t,
     before |-> planet, trace |-> r.trace, after |-> r.planet,
     cell |-> <<FormatF(r.planet.x, 6), FormatF(r.planet.y, 6),
                FormatF(r.planet.z, 6)>>]

Invoke(planet) ==
    IF prog = "kepler_sim"
    THEN Invoked2D(planet, calculate_longitude(planet, current_t))
    ELSE Invoked3D(planet, calculate_position(planet, current_t))

\* main, the inner loop: one pass.
Calculate ==
    /\ pc = "body"
    /\ i <= NumPlanets
    /\ last' = Invoke(planets[i])
    /\ planets' = [planets EXCEPT ![i] = last'.after]
    /\ line' = Append(line, last'.cell)
    /\ calls' = Append(calls, [body |-> i, date |-> date_str, t |-> current_t,
                               cell |-> last'.cell])
    /\ i' = i + 1
    /\ UNCHANGED <<num_days_to_log, day>>
    /\ UNCHANGED <<prog, tz, epoch_date_input, start_date_input,
                   end_date_input, pc, exit_code, requests, fetched, current_t,
                   end_t, date_str, outfile>>

\* A loop that asks the server again for the first body at the end of every
\* row (not what the program does: C14 tells the two apart).
EndRowAndRefetch ==
    /\ pc = "body"
    /\ i > NumPlanets
    /\ outfile' = Append(outfile, line)
    /\ line' = <<>>
    /\ current_t' = current_t + SECONDS_IN_DAY
    /\ pc' = "loop"
    /\ requests' = Append(requests, <<planets[1].id, date_str, date_str>>)
    /\ UNCHANGED <<num_days_to_log, day>>
    /\ UNCHANGED <<prog, tz, epoch_date_input, start_date_input,
                   end_date_input, exit_code, planets, i, fetched,
                   end_t, date_str, calls, last>>

\* main: the end of the loop body: the line is ended and the time advanced.
EndRow ==
    /\ pc = "body"
    /\ i > NumPlanets
    /\ outfile' = Append(outfile, line)
    /\ line' = <<>>
    /\ current_t' = current_t + SECONDS_IN_DAY
    /\ pc' = "loop"
    /\ UNCHANGED <<num_days_to_log, day>>
    /\ UNCHANGED <<prog, tz, epoch_date_input, start_date_input,
                   end_date_input, exit_code, planets, i, requests, fetched,
                   end_t, date_str, calls, last>>

\* main: the loop is left, the file closed, return 0.
Finish ==
    /\ pc = "loop"
    /\ ~(current_t <= end_t)
    /\ pc' = "exit"
    /\ exit_code' = 0
    /\ UNCHANGED <<num_days_to_log, day>>
    /\ UNCHANGED <<prog, tz, epoch_date_input, start_date_input,
                   end_date_input, planets, i, requests, fetched, current_t,
                   end_t, date_str, outfile, line, calls, last>>

Next == Fetch \/ OpenFile \/ BeginRow \/ Calculate \/ EndRow \/ Finish

Spec == Init /\ [][Next]_vars

\* Where main is: every step of Next changes pc or i.
Position == <<pc, i>>

\* main is at a statement and moves on from it.
Running ==
    /\ pc # "exit"
    /\ pc' \in {"fetch", "open", "loop", "body", "exit"}
    /\ i' \in 1..(NumPlanets + 1)

\* The process is scheduled until main returns: while it has not returned,
\* it does not stay at one statement for ever.  (Before "exit" some step of
\* Next is always possible, so this is the weak fairness of Next.)
FairSpec == Spec /\ WF_Position(Running)

(***************************************************************************)
(* planetary_logger.c: the third program asks the server for every body's   *)
(* position on every day and logs the longitude it makes of each answer.    *)
(* Its struct Planet is [name, id, longitude].                              *)
(***************************************************************************)
\* The longest log asked for, in days.
MaxDays == 2

\* struct Planet planets[] = {{"Sun", "10"}, {"Moon", "301"}, ...}
LoggerBodies ==
    <<[name |-> "Sun", id |-> "10"], [name |-> "Moon", id |-> "301"],
      [name |-> "Mercury", id |-> "199"], [name |-> "Venus", id |-> "299"],
      [name |-> "Mars", id |-> "499"], [name |-> "Jupiter", id |-> "599"],
      [name |-> "Saturn", id |-> "699"], [name |-> "Uranus", id |-> "799"],
      [name |-> "Neptune", id |-> "899"], [name |-> "Pluto", id |-> "999"]>>

\* The server's answers: json says whether json_loads takes the text,
\* result_is_string whether its "result" is a string, soe whether that has
\* the $$SOE marker; of "X =" and "Y =" after the marker, found says whether
\* strstr finds it, read whether sscanf reads a number after it, and text is
\* that number's numeral.
VectorTexts ==
    LET num(n)  == [found |-> TRUE, read |-> TRUE, text |-> <<n, 1>>]
        none    == [found |-> FALSE, read |-> FALSE, text |-> <<0, 1>>]
        unread  == [found |-> TRUE, read |-> FALSE, text |-> <<0, 1>>]
        good    == [json |-> TRUE, result_is_string |-> TRUE, soe |-> TRUE,
                    X |-> num(-26000000), Y |-> num(140000000)]
    IN  {good,
         [good EXCEPT !.X = num(100000000), !.Y = num(-110000000)],
         [good EXCEPT !.X = unread],
         [good EXCEPT !.Y = none],
         [good EXCEPT !.soe = FALSE],
         [good EXCEPT !.result_is_string = FALSE],
         [good EXCEPT !.json = FALSE]}

\* What one request can meet: no curl handle, a failed transfer, or a text.
LoggerResponses ==
    {[init_ok |-> ok, perform_ok |-> FALSE, text |-> t] :
        ok \in BOOLEAN, t \in {t \in VectorTexts : ~t.json}}
    \cup {[init_ok |-> TRUE, perform_ok |-> TRUE, text |-> t] : t \in VectorTexts}

\* double x_km, y_km; are not initialised: what they hold when sscanf reads
\* no number is any double.
Indeterminate == {One, FNeg(One)}

\* A failed parse that resets the longitude to 0 (not what the program does:
\* C16 tells the two apart).
ParseFailureCleared(longitude) == [ret |-> -1, longitude |-> Zero]

\* parse_planet_data: every return -1 comes before *longitude is written.
ParseFailure(longitude) == [ret |-> -1, longitude |-> longitude]

\* parse_planet_data(json_text, &longitude): .ret is the value returned,
\* .longitude is *longitude after the call; indeterminate is what x_km and
\* y_km hold before the sscanf calls.
parse_planet_data(json_text, longitude, indeterminate) ==
    IF ~json_text.json \/ ~json_text.result_is_string \/ ~json_text.soe
          \/ ~(json_text.X.found /\ json_text.Y.found)
    THEN ParseFailure(longitude)
    ELSE LET x_km == IF json_text.X.read THEN strtod(json_text.X.text)
                     ELSE indeterminate
             y_km == IF json_text.Y.read THEN strtod(json_text.Y.text)
                     ELSE indeterminate
             longitude_rad == atan2(y_km, x_km)
         IN  [ret |-> 0,
              longitude |-> WrapLongitude(FMul(longitude_rad, FDiv(F180, M_PI)))]

\* The state after the prompts: a date and a number of days have been typed
\* in.
LoggerInit ==
    /\ prog = "planetary_logger"
    /\ tz \in Zones
    /\ start_date_input \in StartDates
    /\ num_days_to_log \in -1..MaxDays
    /\ epoch_date_input = Absent
    /\ end_date_input = Absent
    /\ pc = "open"
    /\ exit_code = 0
    /\ planets = [k \in 1..NumPlanets |->
                     [name |-> LoggerBodies[k].name, id |-> LoggerBodies[k].id,
                      longitude |-> Zero]]
    /\ i = 1
    /\ day = 0
    /\ requests = <<>>
    /\ fetched = <<>>
    /\ current_t = 0
    /\ end_t = 0
    /\ date_str = Absent
    /\ outfile = <<>>
    /\ line = <<>>
    /\ calls = <<>>
    /\ last = NoCall

\* main: fopen, and on success the header line and the loop's set-up; on
\* failure return 1.
LoggerOpen ==
    /\ pc = "open"
    /\ \E opened \in BOOLEAN :
          IF opened
          THEN /\ outfile' = <<<<"Date">> \o [k \in 1..NumPlanets |-> planets[k].name]>>
               /\ current_t' = mktime(tz, ParseDate(start_date_input))
               /\ day' = 0
               /\ pc' = "loop"
               /\ exit_code' = exit_code
          ELSE /\ pc' = "exit"
               /\ exit_code' = 1
               /\ UNCHANGED <<outfile, current_t, day>>
    /\ UNCHANGED <<prog, tz, epoch_date_input, start_date_input,
                   end_date_input, planets, i, requests, fetched, end_t,
                   date_str, line, calls, last, num_days_to_log>>

\* main: for (day = 0; day < num_days_to_log; ...), entering the body: the
\* date string is made and written.
LoggerBeginDay ==
    /\ pc = "loop"
    /\ day < num_days_to_log
    /\ date_str' = strftime(localtime(tz, current_t))
    /\ line' = <<date_str'>>
    /\ i' = 1
    /\ pc' = "body"
    /\ UNCHANGED <<prog, tz, epoch_date_input, start_date_input,
                   end_date_input, exit_code, planets, requests, fetched,
                   current_t, end_t, outfile, calls, last, num_days_to_log,
                   day>>

\* The inner loop's request for body i: with a handle and a completed
\* transfer the answer is parsed, and the value parse_planet_data returns is
\* not looked at; .ok says whether the request and the parse succeeded.
Attempt(resp, longitude, indeterminate) ==
    IF resp.init_ok /\ resp.perform_ok
    THEN LET r == parse_planet_data(resp.text, longitude, indeterminate)
         IN  [ok |-> r.ret = 0, longitude |-> r.longitude]
    ELSE [ok |-> FALSE, longitude |-> longitude]

\* What the inner loop's pass for body i records of its attempt a, and the
\* cell it prints whatever the attempt came to: "%.4f" of the longitude.
Logged(a) ==
    [called |-> TRUE, body |-> i, date |-> date_str, ok |-> a.ok,
     before |-> planets[i].longitude, after |-> a.longitude,
     cell |-> FormatF(a.longitude, 4)]

\* main, the inner loop: one pass, meeting some response.
LoggerCell ==
    /\ pc = "body"
    /\ i <= NumPlanets
    /\ \E resp \in LoggerResponses : \E indeterminate \in Indeterminate :
          /\ last' = Logged(Attempt(resp, planets[i].longitude, indeterminate))
          /\ requests' =
                IF resp.init_ok
                THEN Append(requests,
                            <<planets[i].id, date_str,
                              strftime(localtime(tz, current_t + 24 * 60 * 60))>>)
                ELSE requests
    /\ planets' = [planets EXCEPT ![i].longitude = last'.after]
    /\ line' = Append(line, last'.cell)
    /\ calls' = Append(calls, [body |-> i, date |-> date_str, ok |-> last'.ok,
                               cell |-> last'.cell])
    /\ i' = i + 1
    /\ UNCHANGED <<prog, tz, epoch_date_input, start_date_input,
                   end_date_input, pc, exit_code, fetched, current_t, end_t,
                   date_str, outfile, num_days_to_log, day>>

\* main: the end of the day loop's body: the line is ended and the time and
\* the day advanced.
LoggerEndDay ==
    /\ pc = "body"
    /\ i > NumPlanets
    /\ outfile' = Append(outfile, line)
    /\ line' = <<>>
    /\ current_t' = current_t + 24 * 60 * 60
    /\ day' = day + 1
    /\ pc' = "loop"
    /\ UNCHANGED <<prog, tz, epoch_date_input, start_date_input,
                   end_date_input, exit_code, planets, i, requests, fetched,
                   end_t, date_str, calls, last, num_days_to_log>>

\* main: the day loop is left, the file closed, return 0.
LoggerFinish ==
    /\ pc = "loop"
    /\ ~(day < num_days_to_log)
    /\ pc' = "exit"
    /\ exit_code' = 0
    /\ UNCHANGED <<prog, tz, epoch_date_input, start_date_input,
                   end_date_input, planets, i, requests, fetched, current_t,
                   end_t, date_str, outfile, line, calls, last,
                   num_days_to_log, day>>

LoggerNext ==
    LoggerOpen \/ LoggerBeginDay \/ LoggerCell \/ LoggerEndDay \/ LoggerFinish

LoggerSpec == LoggerInit /\ [][LoggerNext]_vars

\* The process is scheduled until main returns.
LoggerFairSpec == LoggerSpec /\ WF_Position(Running)

(***************************************************************************)
(* Properties.                                                              *)
(***************************************************************************)
\* The run has returned 0.
Completed == pc = "exit" /\ exit_code = 0

\* The result rows of the output file: the lines after the header.
Rows == SubSeq(outfile, 2, Len(outfile))

\* The day number of a date string.
DayOf(s) == days_from_civil(s[1], s[2], s[3])

\* The number of dates of the range typed in.
NumDates ==
    IF DayOf(end_date_input) < DayOf(start_date_input) THEN 0
    ELSE DayOf(end_date_input) - DayOf(start_date_input) + 1

\* The dates of the range typed in.
RangeDates == {DatePlus(start_date_input, d) : d \in 0..(NumDates - 1)}

\* The orbital elements of a struct Planet.
Elements(p) ==
    <<p.eccentricity, p.semi_major_axis_au, p.inclination_deg,
      p.lon_asc_node_deg, p.arg_periapsis_deg, p.mean_anomaly_deg, p.epoch>>

\* Body k's elements are unusable.
Invalid(k) == planets[k].semi_major_axis_au[1] <= 0

\* A cell all of whose numbers are "nan", and one none of whose are.
AllNaN(cell) ==
    IF prog = "kepler_sim" THEN cell.nan
    ELSE cell[1].nan /\ cell[2].nan /\ cell[3].nan

NoNaN(cell) ==
    IF prog = "kepler_sim" THEN ~cell.nan
    ELSE ~cell[1].nan /\ ~cell[2].nan /\ ~cell[3].nan

\* C1: when the semi-major axis is zero or negative, the calculator returns
\* not-a-number in every output field (the longitude; x, y and z) and does
\* none of the propagation, the solver's updates or the rotation.
C1_RejectsWithNaN ==
    (last.called /\ last.before.semi_major_axis_au[1] <= 0) =>
        /\ last.trace = Rejected
        /\ last.trace.updates = 0
        /\ ~last.trace.rotated
        /\ IF prog = "kepler_sim" THEN isnan(last.longitude)
           ELSE isnan(last.after.x) /\ isnan(last.after.y) /\ isnan(last.after.z)

\* A 3D invocation on a zero semi-major axis has left not-a-number in z.
C1_Witness ==
    /\ last.called
    /\ prog = "kepler_sim_3d"
    /\ last.before.semi_major_axis_au = Zero
    /\ isnan(last.after.z)

\* C2: every row has exactly one result per body, in the order of the body
\* array, and a completed run has as many rows as the range has dates.
C2_RowsMatchRange ==
    /\ \A r \in 1..Len(Rows) :
          /\ Len(Rows[r]) = NumPlanets + 1
          /\ \A k \in 1..NumPlanets :
                /\ calls[(r - 1) * NumPlanets + k].body = k
                /\ calls[(r - 1) * NumPlanets + k].cell = Rows[r][k + 1]
    /\ Completed => Len(Rows) = NumDates

\* C3: over a completed run the calculator has been invoked exactly once for
\* each body on each date of the range.
C3_OncePerBodyAndDate ==
    Completed =>
        \A k \in 1..NumPlanets : \A d \in RangeDates :
            Cardinality({j \in 1..Len(calls) :
                            calls[j].body = k /\ calls[j].date = d}) = 1

\* C4: each row's date is the day after the date of the row before it.
C4_DatesStepByOneDay ==
    \A r \in 2..Len(Rows) : DayOf(Rows[r][1]) = DayOf(Rows[r - 1][1]) + 1

\* C5: when the start date does not follow the end date, a completed run's
\* first row is for the start date and its last row for the end date.
C5_RangeInclusive ==
    (Completed /\ NumDates > 0) =>
        /\ Len(Rows) > 0
        /\ Rows[1][1] = start_date_input
        /\ Rows[Len(Rows)][1] = end_date_input

\* The rows the loop makes from start_t to end_t, whatever the bodies are.
LoopPasses ==
    IF mktime(tz, ParseDate(start_date_input)) > end_t THEN 0
    ELSE (end_t - mktime(tz, ParseDate(start_date_input))) \div SECONDS_IN_DAY + 1

\* In every row, the cell of a body with unusable elements is not-a-number
\* and the cell of every other body is a number; no run that has entered the
\* loop has returned 1, and a completed run has every row of the loop.
C6_Cells ==
    /\ \A r \in 1..Len(Rows) : \A k \in 1..NumPlanets :
          IF Invalid(k) THEN AllNaN(Rows[r][k + 1]) ELSE NoNaN(Rows[r][k + 1])
    /\ (Len(outfile) > 0 /\ pc = "exit") => exit_code = 0
    /\ Completed => Len(Rows) = LoopPasses

\* C6: a body with a semi-major axis <= 0 does not abort or shorten the run:
\* its cell is not-a-number in every row, every other body's cell is computed
\* in every row, and the run, once in its loop, completes with return 0.
C6_InvalidBodyDoesNotAbort == [](C6_Cells) /\ ((pc = "loop") ~> Completed)

\* A completed run of two rows or more with an unusable body and a usable one.
C6_Witness ==
    /\ Completed
    /\ Len(Rows) >= 2
    /\ \E k \in 1..NumPlanets : Invalid(k)
    /\ \E k \in 1..NumPlanets : ~Invalid(k)

\* C7: once a call of fetch_orbital_elements has failed, for whichever body,
\* the calculator is never invoked and no line is written: the run has
\* returned 1 with nothing done for the bodies fetched before.
C7_FetchFailureAborts ==
    (\E k \in 1..Len(fetched) : fetched[k] # 0) =>
        /\ pc = "exit" /\ exit_code = 1
        /\ calls = <<>> /\ last = NoCall
        /\ outfile = <<>> /\ line = <<>>

\* The fetch for the second body failed after the first body's succeeded.
C7_Witness ==
    /\ Len(fetched) = 2
    /\ fetched[1] = 0
    /\ fetched[2] # 0
    /\ pc = "exit"

\* C8: a calculator invocation leaves every orbital element and the epoch of
\* the body it is given, and every other body, as they were.
C8_ElementsUnchanged ==
    [][(pc = "body" /\ i <= NumPlanets) =>
          /\ Elements(planets'[i]) = Elements(planets[i])
          /\ \A k \in 1..NumPlanets : k # i => planets'[k] = planets[k]]_vars

\* A 3D invocation has written a position into the struct.
C8_Witness ==
    /\ last.called
    /\ prog = "kepler_sim_3d"
    /\ ~last.trace.rejected
    /\ last.after # last.before
    /\ planets[last.body] = last.after

\* C9: a longitude that is computed is at least 0 and less than 360.
C9_LongitudeInRange ==
    (last.called /\ prog = "kepler_sim" /\ ~isnan(last.longitude)) =>
        /\ last.longitude[1] >= 0
        /\ FLt(last.longitude, F360)

\* C10: the mean anomaly handed to the solver is at least 0 and less than
\* 360 degrees.
C10_MeanAnomalyNormalized ==
    (last.called /\ ~last.trace.rejected) =>
        /\ last.trace.mean_anomaly[1] >= 0
        /\ FLt(last.trace.mean_anomaly, F360)

\* The solver's update of the program that is running.
NewtonStep(E, M, e) ==
    IF prog = "kepler_sim" THEN NewtonStep2D(E, M, e) ELSE NewtonStep3D(E, M, e)

\* The orbital-plane coordinates the program that is running makes of E.
OrbitalPlane(planet, E) ==
    IF prog = "kepler_sim" THEN OrbitalPlane2D(planet, E)
    ELSE OrbitalPlane3D(planet, E)

\* E after n updates from E = M.
RECURSIVE Updates(_, _, _)
Updates(n, M, e) ==
    IF n = 0 THEN M ELSE NewtonStep(Updates(n - 1, M, e), M, e)

\* C11: an invocation that is not rejected starts the solver at E = M and
\* makes exactly ten updates, converged or not; the loop ends and the position
\* step is given the value of the tenth update.
C11_TenUpdates ==
    (last.called /\ ~last.trace.rejected) =>
        /\ last.trace.updates = 10
        /\ last.trace.E_rad =
              Updates(10, last.trace.M_rad, last.before.eccentricity)
        /\ <<last.trace.x_orb, last.trace.y_orb>> =
              OrbitalPlane(last.before, last.trace.E_rad)

\* An invocation whose updates moved E away from M and had settled by the
\* ninth: the tenth was made all the same.
C11_Witness ==
    /\ last.called /\ ~last.trace.rejected
    /\ last.trace.updates = 10
    /\ last.trace.E_rad # last.trace.M_rad
    /\ Updates(9, last.trace.M_rad, last.before.eccentricity) = last.trace.E_rad

\* The squared distance from the centre of the orbital-plane coordinates, of
\* the position stored by calculate_position, and of the orbit's radius.
OrbRadiusSq ==
    FAdd(FMul(last.trace.x_orb, last.trace.x_orb),
         FMul(last.trace.y_orb, last.trace.y_orb))

PosRadiusSq ==
    FAdd(FAdd(FMul(last.after.x, last.after.x), FMul(last.after.y, last.after.y)),
         FMul(last.after.z, last.after.z))

\* u is v to within eight units in the last place of v; v > 0.
Near(u, v) ==
    LET d == FSub(u, v)
    IN  FLe(<<Abs(d[1]), d[2]>>, FDiv(v, FromInt(Pow2(MantBits - 3))))

C13_SameCalculation ==
    last.called =>
        LET lon == IF prog = "kepler_sim" THEN last.longitude
                   ELSE calculate_longitude(last.before, last.t).ret
            pos == IF prog = "kepler_sim"
                   THEN calculate_position(
                            last.before @@ [x |-> Zero, y |-> Zero, z |-> Zero],
                            last.t).planet
                   ELSE last.after
        IN  /\ isnan(lon) <=> isnan(pos.x)
            /\ isnan(lon) <=> isnan(pos.y)
            /\ isnan(lon) <=> isnan(pos.z)
            /\ ~isnan(lon) =>
                  lon = WrapLongitude(FMul(atan2(pos.y, pos.x), FDiv(F180, M_PI)))

\* A 3D invocation that stored a position off the ecliptic with y < 0, where
\* the longitude is the atan2 plus 360.
C13_Witness ==
    /\ last.called /\ ~last.trace.rejected
    /\ prog = "kepler_sim_3d"
    /\ last.after.y[1] < 0
    /\ last.after.z # Zero
    /\ calculate_longitude(last.before, last.t).ret[1] > 0

\* Once the fetch loop is left, one request has been sent for each body, in
\* the order of the body array, and each has succeeded; at no time has a body
\* been asked for twice.
C14_Fetched ==
    /\ \A k \in 1..Len(requests) : requests[k][1] = PlanetIds[k]
    /\ (pc \in {"open", "loop", "body"} \/ calls # <<>> \/ outfile # <<>>) =>
          /\ Len(requests) = NumPlanets
          /\ Len(fetched) = NumPlanets
          /\ \A k \in 1..NumPlanets : fetched[k] = 0

\* C14: the elements are fetched once per body, before the date loop and
\* before the first calculator invocation, and never again; from the end of
\* the fetch loop on no request is sent and every body's elements and epoch
\* stay as fetched.
C14_FetchedOnceBeforeLoop ==
    /\ [](C14_Fetched)
    /\ [][pc # "fetch" =>
            /\ requests' = requests
            /\ fetched' = fetched
            /\ \A k \in 1..NumPlanets :
                  Elements(planets'[k]) = Elements(planets[k])]_vars

\* A completed run of two rows or more: two requests, sent before the first
\* of at least four calculator invocations.
C14_Witness ==
    /\ Completed
    /\ Len(Rows) >= 2
    /\ Len(calls) >= 2 * NumPlanets
    /\ Len(requests) = NumPlanets

\* C15: in kepler_sim_3d every body's epoch is the start date's time, so
\* every invocation's target time is at or after the epoch: the elapsed days
\* are never negative, and are exactly 0 throughout the first row.  In
\* kepler_sim the epoch is that of the epoch date typed in, whatever the
\* start date is, and the elapsed days are negative when the target time
\* precedes it.
C15_TargetNotBeforeEpoch ==
    last.called =>
        IF prog = "kepler_sim_3d"
        THEN /\ last.before.epoch = mktime(tz, ParseDate(start_date_input))
             /\ last.t >= last.before.epoch
             /\ ~last.trace.rejected => last.trace.days_since_epoch[1] >= 0
             /\ Len(calls) <= NumPlanets =>
                   /\ last.t = last.before.epoch
                   /\ ~last.trace.rejected => last.trace.days_since_epoch = Zero
        ELSE /\ last.before.epoch =
                   mktime(tz, localtime(tz, mktime(tz, ParseDate(epoch_date_input))))
             /\ ~last.trace.rejected =>
                   (last.t < last.before.epoch
                        <=> last.trace.days_since_epoch[1] < 0)

\* A kepler_sim invocation for a date before the epoch date.
C15_Witness ==
    /\ last.called /\ ~last.trace.rejected
    /\ prog = "kepler_sim"
    /\ epoch_date_input # start_date_input
    /\ last.t < last.before.epoch
    /\ last.trace.days_since_epoch[1] < 0

\* The cell of body k in the latest row before row r for which body k's
\* attempt succeeded, or "0.0000" when there is none.
RECURSIVE LastGood(_, _)
LastGood(r, k) ==
    IF r = 1 THEN FormatF(Zero, 4)
    ELSE IF calls[(r - 2) * NumPlanets + k].ok THEN Rows[r - 1][k + 1]
    ELSE LastGood(r - 1, k)

\* Every row has a cell for each body, and the cell of a failed attempt is
\* a number: that of the body's latest success before, or 0; the attempt has
\* left the longitude as it was.  No run that has opened its file has
\* returned 1, and a completed run has the rows asked for.
C16_Cells ==
    /\ \A r \in 1..Len(Rows) :
          /\ Len(Rows[r]) = NumPlanets + 1
          /\ \A k \in 1..NumPlanets :
                LET c == calls[(r - 1) * NumPlanets + k]
                IN  /\ c.body = k /\ c.cell = Rows[r][k + 1]
                    /\ ~c.ok => c.cell = LastGood(r, k) /\ ~c.cell.nan
    /\ (last.called /\ ~last.ok) =>
          last.after = last.before /\ last.cell = FormatF(last.before, 4)
    /\ (Len(outfile) > 0 /\ pc = "exit") => exit_code = 0
    /\ Completed =>
          Len(Rows) = (IF num_days_to_log < 0 THEN 0 ELSE num_days_to_log)

====
